---- MODULE Spec2Model ----
(***************************************************************************)
(* Model of source/image-handler/image-request.js: the ImageRequest class  *)
(* that turns an API-Gateway style event (path, queryStringParameters,     *)
(* headers) and the process environment (SOURCE_BUCKETS, PATH_PREFIX,      *)
(* AUTO_WEBP) into a bucket, a key, an edits value and an output format.   *)
(*                                                                         *)
(* JavaScript strings whose characters the code inspects (paths, bucket    *)
(* names, regular expressions, base64 text, JSON text) are sequences of    *)
(* one-character strings.  Strings the code only passes around (error      *)
(* codes and messages) are TLA+ strings.                                   *)
(***************************************************************************)
EXTENDS Integers, Sequences, FiniteSets, TLC

(***************************************************************************)
(* Bounds of the explored inputs.                                          *)
(***************************************************************************)
MaxEnvLen == 3
MaxPathLen == 4
MaxKeyPathLen == 5
MaxEditsKeys == 3

(***************************************************************************)
(* JavaScript values.                                                      *)
(***************************************************************************)
\* The value undefined where a string is expected (an unset environment
\* variable, a missing property).  No string of the model contains this element.
Undefined == <<"undefined">>

\* String(undefined), as template literals and '+' produce it.
ToStr(x) == IF x = Undefined THEN <<"u", "n", "d", "e", "f", "i", "n", "e", "d">> ELSE x

\* All strings over alphabet A of length at most n.
Strings(A, n) == UNION {[1..k -> A] : k \in 0..n}

\* String.prototype.split with a one-character separator.
RECURSIVE Split(_, _)
Split(s, d) ==
    IF \A i \in 1..Len(s) : s[i] # d
    THEN <<s>>
    ELSE LET i == CHOOSE i \in 1..Len(s) : s[i] = d /\ \A j \in 1..(i - 1) : s[j] # d
         IN  <<SubSeq(s, 1, i - 1)>> \o Split(SubSeq(s, i + 1, Len(s)), d)

\* Array.prototype.join with a one-character separator.
RECURSIVE Join(_, _)
Join(segs, d) ==
    IF Len(segs) = 0 THEN <<>>
    ELSE IF Len(segs) = 1 THEN segs[1]
    ELSE segs[1] \o <<d>> \o Join(Tail(segs), d)

\* Array.prototype.includes.
Includes(arr, x) == \E i \in 1..Len(arr) : arr[i] = x

\* String.prototype.includes: needle occurs in s as a substring.
StrIncludes(s, needle) ==
    \E i \in 0..(Len(s) - Len(needle)) : SubSeq(s, i + 1, i + Len(needle)) = needle

\* The characters /\s/ matches, of those the model uses.
Whitespace == {" "}

\* str.replace(/\s+/g, '')
RemoveWhitespace(s) == SelectSeq(s, LAMBDA c : c \notin Whitespace)

(***************************************************************************)
(* Regular expressions: the subset built from literal characters, '.' and  *)
(* the postfix '*', which is what the characters of the modelled           *)
(* environment values can spell.                                           *)
(***************************************************************************)
\* new RegExp(p) throws SyntaxError ("nothing to repeat") when a '*' has no
\* atom before it: at the start of the pattern (also right after '^' or '(')
\* or right after another '*'.
RegexValid(p) ==
    \A i \in 1..Len(p) : p[i] = "*" => (i > 1 /\ p[i - 1] # "*")

\* The atoms of a valid pattern, each with its quantifier.
RECURSIVE RegexItems(_)
RegexItems(p) ==
    IF Len(p) = 0 THEN <<>>
    ELSE IF Len(p) >= 2 /\ p[2] = "*"
         THEN <<[c |-> p[1], star |-> TRUE]>> \o RegexItems(SubSeq(p, 3, Len(p)))
         ELSE <<[c |-> p[1], star |-> FALSE]>> \o RegexItems(Tail(p))

AtomMatches(c, ch) == c = "." \/ c = ch

\* How many characters from position j on the atom c matches in a row.
RECURSIVE RunLength(_, _, _)
RunLength(c, s, j) ==
    IF j <= Len(s) /\ AtomMatches(c, s[j]) THEN 1 + RunLength(c, s, j + 1) ELSE 0

\* The backtracking matcher: the position after the match of items[i..] that
\* starts at position j of s, or 0 when there is none.  A starred atom is
\* greedy: the longest run is tried first.  With toEnd the match must consume
\* all of s (the pattern ends with '$').
RECURSIVE MatchAt(_, _, _, _, _), TryStar(_, _, _, _, _, _)
MatchAt(items, i, s, j, toEnd) ==
    IF i > Len(items)
    THEN IF toEnd /\ j # Len(s) + 1 THEN 0 ELSE j
    ELSE IF items[i].star
         THEN TryStar(items, i, s, j, toEnd, RunLength(items[i].c, s, j))
         ELSE IF j <= Len(s) /\ AtomMatches(items[i].c, s[j])
              THEN MatchAt(items, i + 1, s, j + 1, toEnd)
              ELSE 0
TryStar(items, i, s, j, toEnd, k) ==
    LET r == MatchAt(items, i + 1, s, j + k, toEnd)
    IN  IF r # 0 THEN r
        ELSE IF k = 0 THEN 0
        ELSE TryStar(items, i, s, j, toEnd, k - 1)

\* Whether s.match(re) is not null, re the valid pattern p between ^ and $.
MatchesAnchored(s, p) == MatchAt(RegexItems(p), 1, s, 1, TRUE) # 0

\* s.replace(re, empty string), re the valid pattern p anchored at the start.
StripPattern(s, p) ==
    LET e == MatchAt(RegexItems(p), 1, s, 1, FALSE)
    IN  IF e = 0 THEN s ELSE SubSeq(s, e, Len(s))


(***************************************************************************)
(* Buffer.from(encoded, 'base64').toString()                               *)
(***************************************************************************)
\* The base64 alphabet; the character at position i stands for i - 1.
Base64Alphabet ==
    <<"A", "B", "C", "D", "E", "F", "G", "H", "I", "J", "K", "L", "M",
      "N", "O", "P", "Q", "R", "S", "T", "U", "V", "W", "X", "Y", "Z",
      "a", "b", "c", "d", "e", "f", "g", "h", "i", "j", "k", "l", "m",
      "n", "o", "p", "q", "r", "s", "t", "u", "v", "w", "x", "y", "z",
      "0", "1", "2", "3", "4", "5", "6", "7", "8", "9", "+", "/">>

IsBase64Char(c) == \E i \in 1..64 : Base64Alphabet[i] = c

Base64Value(c) == (CHOOSE i \in 1..64 : Base64Alphabet[i] = c) - 1

\* The decoder of Buffer.from(s, 'base64') never throws: it stops at the
\* first '=', skips every other character outside the alphabet, and turns
\* each further legal character after the first of a group of four into one
\* more byte.  Sextets(s) are the values of the legal characters it reads.
RECURSIVE Sextets(_)
Sextets(s) ==
    IF Len(s) = 0 \/ s[1] = "=" THEN <<>>
    ELSE IF IsBase64Char(s[1]) THEN <<Base64Value(s[1])>> \o Sextets(Tail(s))
    ELSE Sextets(Tail(s))

RECURSIVE BytesOfSextets(_)
BytesOfSextets(v) ==
    IF Len(v) < 2 THEN <<>>
    ELSE LET b1 == (v[1] * 4 + v[2] \div 16) % 256
             b2 == IF Len(v) >= 3 THEN <<((v[2] % 16) * 16 + v[3] \div 4) % 256>> ELSE <<>>
             b3 == IF Len(v) >= 4 THEN <<((v[3] % 4) * 64 + v[4]) % 256>> ELSE <<>>
         IN  <<b1>> \o b2 \o b3 \o BytesOfSextets(SubSeq(v, 5, Len(v)))

Base64Decode(s) == BytesOfSextets(Sextets(s))

\* The printable ASCII characters, code 32 first.
Ascii ==
    <<" ", "!", "\"", "#", "$", "%", "&", "'", "(", ")", "*", "+", ",", "-", ".", "/",
      "0", "1", "2", "3", "4", "5", "6", "7", "8", "9", ":", ";", "<", "=", ">", "?",
      "@", "A", "B", "C", "D", "E", "F", "G", "H", "I", "J", "K", "L", "M", "N", "O",
      "P", "Q", "R", "S", "T", "U", "V", "W", "X", "Y", "Z", "[", "BACKSLASH", "]", "^", "_",
      "BACKTICK", "a", "b", "c", "d", "e", "f", "g", "h", "i", "j", "k", "l", "m", "n", "o",
      "p", "q", "r", "s", "t", "u", "v", "w", "x", "y", "z", "{", "|", "}", "~">>

\* buffer.toString() of bytes that are ASCII.  The backslash and the
\* backtick are the tokens "BACKSLASH" and "BACKTICK", a control character
\* is the token "CTRL"; a byte of 128 or more, which the payloads of the
\* model only hold outside a well-formed UTF-8 sequence, decodes to U+FFFD.
CharOfByte(b) ==
    IF b >= 32 /\ b <= 126 THEN Ascii[b - 31]
    ELSE IF b < 32 \/ b = 127 THEN "CTRL"
    ELSE "U+FFFD"

BufferToString(bytes) == [i \in 1..Len(bytes) |-> CharOfByte(bytes[i])]

(***************************************************************************)
(* JSON.parse, for the JSON texts whose numbers are integers without       *)
(* fraction or exponent and whose strings hold no escape sequence.         *)
(* A parsed value is [t |-> type, v |-> content]; an object is the         *)
(* sequence of its [k, v] members in insertion order, which is the order   *)
(* Object.keys lists them in (no key of the model is an array index).      *)
(***************************************************************************)
JUndefined == [t |-> "undefined", v |-> <<>>]
JNull == [t |-> "null", v |-> <<>>]
JBool(b) == [t |-> "boolean", v |-> b]
JNum(n) == [t |-> "number", v |-> n]
JStr(chars) == [t |-> "string", v |-> chars]
JArr(elems) == [t |-> "array", v |-> elems]
JObj(members) == [t |-> "object", v |-> members]

Digits == <<"0", "1", "2", "3", "4", "5", "6", "7", "8", "9">>
IsDigit(c) == \E i \in 1..10 : Digits[i] = c
DigitValue(c) == (CHOOSE i \in 1..10 : Digits[i] = c) - 1

ParseFail == [ok |-> FALSE, val |-> JUndefined, pos |-> 0]
Parsed(v, pos) == [ok |-> TRUE, val |-> v, pos |-> pos]

HasKey(members, k) == \E i \in 1..Len(members) : members[i].k = k

\* obj[k] = v on the members of an object: a present key keeps its place.
SetKey(members, k, v) ==
    IF HasKey(members, k)
    THEN [i \in 1..Len(members) |->
             IF members[i].k = k THEN [k |-> k, v |-> v] ELSE members[i]]
    ELSE Append(members, [k |-> k, v |-> v])

\* delete obj[k]
DeleteKey(members, k) == SelectSeq(members, LAMBDA m : m.k # k)

RECURSIVE SkipSpace(_, _)
SkipSpace(s, i) == IF i <= Len(s) /\ s[i] = " " THEN SkipSpace(s, i + 1) ELSE i

\* The index of the double quote closing the string whose content starts at i, or 0.
RECURSIVE StringEnd(_, _)
StringEnd(s, i) ==
    IF i > Len(s) \/ s[i] = "BACKSLASH" \/ s[i] = "CTRL" THEN 0
    ELSE IF s[i] = "\"" THEN i
    ELSE StringEnd(s, i + 1)

RECURSIVE DigitsEnd(_, _)
DigitsEnd(s, i) == IF i <= Len(s) /\ IsDigit(s[i]) THEN DigitsEnd(s, i + 1) ELSE i

RECURSIVE DigitsValue(_)
DigitsValue(ds) ==
    IF Len(ds) = 0 THEN 0
    ELSE 10 * DigitsValue(SubSeq(ds, 1, Len(ds) - 1)) + DigitValue(ds[Len(ds)])

StartsWith(s, i, word) ==
    i + Len(word) - 1 <= Len(s) /\ SubSeq(s, i, i + Len(word) - 1) = word

ParseString(s, i) ==
    LET e == StringEnd(s, i + 1)
    IN  IF e = 0 THEN ParseFail ELSE Parsed(JStr(SubSeq(s, i + 1, e - 1)), e + 1)

\* An integer: an optional minus sign, then 0 alone or digits without a leading 0.
ParseNumber(s, i) ==
    LET neg == s[i] = "-"
        d == IF neg THEN i + 1 ELSE i
        e == IF d <= Len(s) /\ s[d] = "0" THEN d + 1 ELSE DigitsEnd(s, d)
        n == DigitsValue(SubSeq(s, d, e - 1))
    IN  IF e = d THEN ParseFail ELSE Parsed(JNum(IF neg THEN 0 - n ELSE n), e)

RECURSIVE ParseValue(_, _), ParseMembers(_, _, _), ParseElements(_, _, _)
ParseValue(s, i0) ==
    LET i == SkipSpace(s, i0)
    IN  IF i > Len(s) THEN ParseFail
        ELSE IF s[i] = "{"
             THEN LET j == SkipSpace(s, i + 1)
                  IN  IF j <= Len(s) /\ s[j] = "}" THEN Parsed(JObj(<<>>), j + 1)
                      ELSE ParseMembers(s, j, <<>>)
        ELSE IF s[i] = "["
             THEN LET j == SkipSpace(s, i + 1)
                  IN  IF j <= Len(s) /\ s[j] = "]" THEN Parsed(JArr(<<>>), j + 1)
                      ELSE ParseElements(s, j, <<>>)
        ELSE IF s[i] = "\"" THEN ParseString(s, i)
        ELSE IF s[i] = "-" \/ IsDigit(s[i]) THEN ParseNumber(s, i)
        ELSE IF StartsWith(s, i, <<"t", "r", "u", "e">>) THEN Parsed(JBool(TRUE), i + 4)
        ELSE IF StartsWith(s, i, <<"f", "a", "l", "s", "e">>) THEN Parsed(JBool(FALSE), i + 5)
        ELSE IF StartsWith(s, i, <<"n", "u", "l", "l">>) THEN Parsed(JNull, i + 4)
        ELSE ParseFail
ParseMembers(s, i0, acc) ==
    LET i == SkipSpace(s, i0)
    IN  IF i > Len(s) \/ s[i] # "\"" THEN ParseFail
        ELSE LET key == ParseString(s, i)
                 c == IF key.ok THEN SkipSpace(s, key.pos) ELSE 0
             IN  IF ~key.ok \/ c > Len(s) \/ s[c] # ":" THEN ParseFail
                 ELSE LET val == ParseValue(s, c + 1)
                          n == IF val.ok THEN SkipSpace(s, val.pos) ELSE 0
                      IN  IF ~val.ok \/ n > Len(s) THEN ParseFail
                          ELSE IF s[n] = ","
                               THEN ParseMembers(s, n + 1, SetKey(acc, key.val.v, val.val))
                          ELSE IF s[n] = "}"
                               THEN Parsed(JObj(SetKey(acc, key.val.v, val.val)), n + 1)
                          ELSE ParseFail
ParseElements(s, i0, acc) ==
    LET val == ParseValue(s, i0)
        n == IF val.ok THEN SkipSpace(s, val.pos) ELSE 0
    IN  IF ~val.ok \/ n > Len(s) THEN ParseFail
        ELSE IF s[n] = "," THEN ParseElements(s, n + 1, Append(acc, val.val))
        ELSE IF s[n] = "]" THEN Parsed(JArr(Append(acc, val.val)), n + 1)
        ELSE ParseFail

\* JSON.parse(text): the value, or ok = FALSE where it throws SyntaxError.
JSONParse(text) ==
    LET r == ParseValue(text, 1)
    IN  IF r.ok /\ SkipSpace(text, r.pos) = Len(text) + 1 THEN r ELSE ParseFail

\* v[k] for a property name k that only a parsed object can have.
GetProp(v, k) ==
    IF v.t = "object" /\ HasKey(v.v, k)
    THEN v.v[CHOOSE i \in 1..Len(v.v) : v.v[i].k = k].v
    ELSE JUndefined

\* Whether two parsed values are the same value: the same type and the same
\* content, member by member in the same order.
RECURSIVE SameValue(_, _)
SameValue(a, b) ==
    /\ a.t = b.t
    /\ IF a.t = "object"
       THEN /\ Len(a.v) = Len(b.v)
            /\ \A i \in 1..Len(a.v) :
                   a.v[i].k = b.v[i].k /\ SameValue(a.v[i].v, b.v[i].v)
       ELSE IF a.t = "array"
       THEN /\ Len(a.v) = Len(b.v)
            /\ \A i \in 1..Len(a.v) : SameValue(a.v[i], b.v[i])
       ELSE a.v = b.v

\* ToBoolean(v)
Truthy(v) ==
    CASE v.t \in {"undefined", "null"} -> FALSE
      [] v.t = "boolean" -> v.v
      [] v.t = "number" -> v.v # 0
      [] v.t = "string" -> v.v # <<>>
      [] OTHER -> TRUE

(***************************************************************************)
(* State.                                                                  *)
(***************************************************************************)
VARIABLES
    SOURCE_BUCKETS,  \* process.env.SOURCE_BUCKETS: a string or Undefined
    PATH_PREFIX,     \* process.env.PATH_PREFIX: a string or Undefined
    AUTO_WEBP,       \* process.env.AUTO_WEBP: a string or Undefined
    event,           \* the Lambda event of the request being handled
    this,            \* the fields of the ImageRequest instance
    pc,              \* where the call is: "idle", "returned" (a method called
                     \* on its own), "awaiting" (setup suspended at the await
                     \* of s3.getObject), "resolved", "rejected"
    rejection,       \* the value the promise of setup is rejected with
    s3Request,       \* the s3.getObject call issued, if any
    stages,          \* the methods setup has called so far, in order
    ret,             \* what a method called on its own returned or threw
    calls            \* when one instance serves two calls of setup: each
                     \* call's event, position, S3 request and outcome

vars == <<SOURCE_BUCKETS, PATH_PREFIX, AUTO_WEBP, event, this, pc, rejection,
          s3Request, stages, ret, calls>>

env == <<SOURCE_BUCKETS, PATH_PREFIX, AUTO_WEBP>>

(***************************************************************************)
(* Thrown values and results of calls.                                     *)
(***************************************************************************)
NoError == [kind |-> "none", status |-> 0, code |-> "", message |-> ""]

\* The object literals the code throws: { status, code, message }.
Error(status, code, message) ==
    [kind |-> "structured", status |-> status, code |-> code, message |-> message]

\* An exception the runtime throws (SyntaxError, TypeError): an Error object,
\* which has a message but neither status nor code.
Exception(name, message) ==
    [kind |-> "exception", status |-> 0, code |-> name, message |-> message]

Return(v) == [ok |-> TRUE, val |-> v, err |-> NoError]
Throw(e) == [ok |-> FALSE, val |-> <<>>, err |-> e]

NoSourceBuckets ==
    Error(400, "GetAllowedSourceBuckets::NoSourceBuckets",
          "The SOURCE_BUCKETS variable could not be read.")
CannotAccessBucket ==
    Error(403, "ImageBucket::CannotAccessBucket",
          "The bucket you specified could not be accessed.")
CannotFindBucket ==
    Error(404, "ImageBucket::CannotFindBucket",
          "The bucket you specified could not be found.")
CannotFindImage ==
    Error(404, "ImageEdits::CannotFindImage",
          "The image you specified could not be found.")
CannotParseEdits ==
    Error(400, "ImageEdits::CannotParseEdits",
          "The edits you provided could not be parsed.")
CannotDecodeRequest ==
    Error(400, "DecodeRequest::CannotDecodeRequest",
          "The image request you provided could not be decoded.")
RegExpSyntaxError == Exception("SyntaxError", "Invalid regular expression: Nothing to repeat")

(***************************************************************************)
(* The methods of ImageRequest that read the path.                         *)
(***************************************************************************)
parseRequestType(ev) == "Default"

getAllowedSourceBuckets ==
    IF SOURCE_BUCKETS = Undefined
    THEN Throw(NoSourceBuckets)
    ELSE Return(Split(RemoveWhitespace(SOURCE_BUCKETS), ","))

removePathPrefix(path) ==
    LET prefix == ToStr(PATH_PREFIX)
    IN  IF ~RegexValid(prefix)
        THEN Throw(RegExpSyntaxError)
        ELSE Return(StripPattern(path, prefix))

\* MatchFirstEntry with the pattern not anchored at the end.
MatchFirstEntryUnanchored(bucket, sourceBuckets) ==
    IF ~RegexValid(sourceBuckets[1])
    THEN Throw(RegExpSyntaxError)
    ELSE Return(MatchAt(RegexItems(sourceBuckets[1]), 1, bucket, 1, FALSE) # 0)

\* bucket.match(new RegExp(...)) on the first entry, reached only when
\* sourceBuckets.includes(bucket) is false.
MatchFirstEntry(bucket, sourceBuckets) ==
    IF ~RegexValid(sourceBuckets[1])
    THEN Throw(RegExpSyntaxError)
    ELSE Return(MatchesAnchored(bucket, sourceBuckets[1]))

\* CheckBucket comparing the bucket with the first entry only.
CheckBucketFirstEntryOnly(bucket, sourceBuckets) ==
    IF bucket = sourceBuckets[1] THEN Return(bucket) ELSE Throw(CannotAccessBucket)

\* Lines 124-133: the whitelist check of a non-empty bucket segment.
CheckBucket(bucket, sourceBuckets) ==
    IF Includes(sourceBuckets, bucket)
    THEN Return(bucket)
    ELSE LET m == MatchFirstEntry(bucket, sourceBuckets)
         IN  IF ~m.ok THEN Throw(m.err)
             ELSE IF m.val THEN Return(bucket)
             ELSE Throw(CannotAccessBucket)

parseImageBucket(ev, requestType) ==
    IF requestType = "Default"
    THEN LET stripped == removePathPrefix(ev.path)
         IN  IF ~stripped.ok THEN Throw(stripped.err)
             ELSE LET bucket == Split(stripped.val, "/")[1]
                      sourceBuckets == getAllowedSourceBuckets
                  IN  IF ~sourceBuckets.ok THEN Throw(sourceBuckets.err)
                      ELSE IF bucket # <<>>
                           THEN CheckBucket(bucket, sourceBuckets.val)
                           ELSE Return(sourceBuckets.val[1])
    ELSE Throw(CannotFindBucket)

\* parseImageKey without the removal of the fragment and the query.
parseImageKeyKeepsQuery(ev, requestType) ==
    LET stripped == removePathPrefix(ev.path)
    IN  IF ~stripped.ok THEN Throw(stripped.err)
        ELSE LET key == Join(Tail(Split(stripped.val, "/")), "/")
             IN  IF key = <<>> THEN Throw(CannotFindImage) ELSE Return(key)

\* parseImageKey without the check of lines 196-203 for an empty key.
parseImageKeyUnchecked(ev, requestType) ==
    LET stripped == removePathPrefix(ev.path)
    IN  IF ~stripped.ok THEN Throw(stripped.err)
        ELSE Return(Join(Tail(Split(Split(Split(stripped.val, "#")[1], "?")[1], "/")), "/"))

parseImageKey(ev, requestType) ==
    LET stripped == IF requestType = "Default"
                    THEN removePathPrefix(ev.path)
                    ELSE Return(<<>>)
    IN  IF ~stripped.ok THEN Throw(stripped.err)
        ELSE LET cleanPath == Split(Split(stripped.val, "#")[1], "?")[1]
                 key == IF requestType = "Default"
                        THEN Join(Tail(Split(cleanPath, "/")), "/")
                        ELSE <<>>
             IN  IF key = <<>> THEN Throw(CannotFindImage) ELSE Return(key)

(***************************************************************************)
(* parseImageBucket and parseImageKey called on their own, on every path,  *)
(* whitelist and prefix within the bounds.                                 *)
(***************************************************************************)
EnvChars == {"a", "b", ",", "*", " "}
PathChars == {"/", "a", "b"}
KeyPathChars == {"/", "a", "#", "?"}
Prefixes == {Undefined, <<>>, <<"/">>, <<"/", "a">>, <<"*">>}

NoCall == [fn |-> "none", ok |-> TRUE, val |-> <<>>, err |-> NoError]
Called(fn, r) == [fn |-> fn, ok |-> r.ok, val |-> r.val, err |-> r.err]

\* event.queryStringParameters: null, or a mapping whose edits is a string
\* or undefined.  event.headers: undefined, or a mapping whose Accept is a
\* string or undefined.
NoQuery == [present |-> FALSE, edits |-> Undefined]
Query(edits) == [present |-> TRUE, edits |-> edits]
NoHeaders == [present |-> FALSE, Accept |-> Undefined]
Headers(accept) == [present |-> TRUE, Accept |-> accept]

Event(path, query, headers) ==
    [path |-> path, queryStringParameters |-> query, headers |-> headers]

PathEvent(p) == Event(p, NoQuery, Headers(Undefined))

\* A new ImageRequest(): no field is set.
FreshInstance ==
    [requestType |-> "undefined", bucket |-> Undefined, key |-> Undefined,
     edits |-> JUndefined, originalImage |-> "undefined",
     outputFormat |-> JUndefined, ContentType |-> Undefined,
     Expires |-> Undefined, LastModified |-> Undefined,
     CacheControl |-> Undefined]

NoRequest == [issued |-> FALSE, Bucket |-> Undefined, Key |-> Undefined]
GetObject(bucket, key) == [issued |-> TRUE, Bucket |-> bucket, Key |-> key]

\* A Date of the S3 response, by its UTC calendar fields.
NoDate == [set |-> FALSE, wd |-> 1, d |-> 1, mo |-> 1, y |-> 1970, h |-> 0, mi |-> 0, s |-> 0]
DateOf(wd, d, mo, y, h, mi, s) ==
    [set |-> TRUE, wd |-> wd, d |-> d, mo |-> mo, y |-> y, h |-> h, mi |-> mi, s |-> s]

\* No answer of s3.getObject yet.
NoObject ==
    [Body |-> "undefined", ContentType |-> Undefined, CacheControl |-> Undefined,
     Expires |-> NoDate, LastModified |-> NoDate]

\* The two calls of setup one instance may serve, neither made yet.
CallIds == {"A", "B"}
NoCalls ==
    [c \in CallIds |->
        [pc |-> "idle", event |-> PathEvent(<<>>), rejection |-> NoError,
         request |-> NoRequest, object |-> NoObject]]

InitBucket ==
    /\ SOURCE_BUCKETS \in Strings(EnvChars, MaxEnvLen) \cup {Undefined}
    /\ PATH_PREFIX \in Prefixes
    /\ AUTO_WEBP = Undefined
    /\ event \in {PathEvent(p) : p \in Strings(PathChars, MaxPathLen)}
    /\ this = FreshInstance
    /\ pc = "idle"
    /\ rejection = NoError
    /\ s3Request = NoRequest
    /\ stages = <<>>
    /\ ret = NoCall
    /\ calls = NoCalls

CallParseImageBucket ==
    /\ pc = "idle"
    /\ ret' = Called("parseImageBucket", parseImageBucket(event, parseRequestType(event)))
    /\ pc' = "returned"
    /\ UNCHANGED <<env, event, this, rejection, s3Request, stages, calls>>

NextBucket == CallParseImageBucket

SpecBucket == InitBucket /\ [][NextBucket]_vars

InitKey ==
    /\ SOURCE_BUCKETS = Undefined
    /\ PATH_PREFIX \in Prefixes
    /\ AUTO_WEBP = Undefined
    /\ event \in {PathEvent(p) : p \in Strings(KeyPathChars, MaxKeyPathLen)}
    /\ this = FreshInstance
    /\ pc = "idle"
    /\ rejection = NoError
    /\ s3Request = NoRequest
    /\ stages = <<>>
    /\ ret = NoCall
    /\ calls = NoCalls

CallParseImageKey ==
    /\ pc = "idle"
    /\ ret' = Called("parseImageKey", parseImageKey(event, parseRequestType(event)))
    /\ pc' = "returned"
    /\ UNCHANGED <<env, event, this, rejection, s3Request, stages, calls>>

NextKey == CallParseImageKey

SpecKey == InitKey /\ [][NextKey]_vars


(***************************************************************************)
(* The methods of ImageRequest that read the query string and the headers. *)
(***************************************************************************)
decodeRequest(encoded) ==
    IF encoded = Undefined
    THEN Return(JUndefined)
    ELSE LET parsed == JSONParse(BufferToString(Base64Decode(encoded)))
         IN  IF parsed.ok THEN Return(parsed.val) ELSE Throw(CannotDecodeRequest)

\* Lines 162-168 of parseImageEdits, given the outcome of decodeRequest: what
\* it throws is passed on, null and undefined become {}.
DecodedOrEmpty(decoded) ==
    IF ~decoded.ok THEN Throw(decoded.err)
    ELSE IF decoded.val.t \in {"undefined", "null"} THEN Return(JObj(<<>>))
    ELSE Return(decoded.val)

parseImageEdits(ev, requestType) ==
    IF requestType = "Default"
    THEN IF ~ev.queryStringParameters.present
         THEN Return(JObj(<<>>))
         ELSE DecodedOrEmpty(decodeRequest(ev.queryStringParameters.edits))
    ELSE Throw(CannotParseEdits)

\* A string environment variable or property is truthy when set and not empty.
TruthyString(x) == x # Undefined /\ x # <<>>

webp == <<"w", "e", "b", "p">>
ImageWebp == <<"i", "m", "a", "g", "e", "/", "w", "e", "b", "p">>
HeadersTypeError == Exception("TypeError", "Cannot read property 'Accept' of undefined")

getOutputFormat(ev, edits, requestType) ==
    IF TruthyString(AUTO_WEBP) /\ ~ev.headers.present
    THEN Throw(HeadersTypeError)
    ELSE IF /\ TruthyString(AUTO_WEBP)
            /\ TruthyString(ev.headers.Accept)
            /\ StrIncludes(ev.headers.Accept, ImageWebp)
         THEN Return(JStr(webp))
    ELSE IF requestType = "Default"
         THEN Return(GetProp(edits, <<"o", "u", "t", "p", "u", "t", "F", "o", "r", "m", "a", "t">>))
    ELSE Return(JNull)

(***************************************************************************)
(* getOriginalImage: the S3 object or error it gets, and what it stores.   *)
(***************************************************************************)
DayNames ==
    <<<<"S", "u", "n">>, <<"M", "o", "n">>, <<"T", "u", "e">>, <<"W", "e", "d">>,
      <<"T", "h", "u">>, <<"F", "r", "i">>, <<"S", "a", "t">>>>
MonthNames ==
    <<<<"J", "a", "n">>, <<"F", "e", "b">>, <<"M", "a", "r">>, <<"A", "p", "r">>,
      <<"M", "a", "y">>, <<"J", "u", "n">>, <<"J", "u", "l">>, <<"A", "u", "g">>,
      <<"S", "e", "p">>, <<"O", "c", "t">>, <<"N", "o", "v">>, <<"D", "e", "c">>>>

TwoDigits(n) == <<Digits[((n \div 10) % 10) + 1], Digits[(n % 10) + 1]>>
FourDigits(n) == TwoDigits(n \div 100) \o TwoDigits(n % 100)

\* new Date(date).toUTCString(): "Tue, 01 Jan 2019 00:00:00 GMT"
toUTCString(date) ==
    DayNames[date.wd] \o <<",", " ">> \o TwoDigits(date.d) \o <<" ">>
        \o MonthNames[date.mo] \o <<" ">> \o FourDigits(date.y) \o <<" ">>
        \o TwoDigits(date.h) \o <<":">> \o TwoDigits(date.mi) \o <<":">>
        \o TwoDigits(date.s) \o <<" ", "G", "M", "T">>

DefaultContentType == <<"i", "m", "a", "g", "e">>
DefaultCacheControl ==
    <<"m", "a", "x", "-", "a", "g", "e", "=", "3", "1", "5", "3", "6", "0", "0", "0",
      ",", "p", "u", "b", "l", "i", "c">>

\* Lines 78-98: the fields getOriginalImage sets from the S3 object.
StoreMetadata(t, obj) ==
    [t EXCEPT
        !.ContentType = IF TruthyString(obj.ContentType)
                        THEN obj.ContentType ELSE DefaultContentType,
        !.Expires = IF obj.Expires.set THEN toUTCString(obj.Expires) ELSE @,
        !.LastModified = IF obj.LastModified.set THEN toUTCString(obj.LastModified) ELSE @,
        !.CacheControl = IF TruthyString(obj.CacheControl)
                         THEN obj.CacheControl ELSE DefaultCacheControl]

\* StorageError answering 404 whatever the code of the error is.
StorageErrorAlwaysNotFound(err) ==
    [kind |-> "structured", status |-> 404, code |-> err.code, message |-> err.message]

\* Lines 99-105: the rejection for an error of s3.getObject.
StorageError(err) ==
    [kind |-> "structured",
     status |-> IF err.code = "NoSuchKey" THEN 404 ELSE 500,
     code |-> err.code,
     message |-> err.message]

(***************************************************************************)
(* setup.                                                                  *)
(***************************************************************************)
\* The part of setup up to the await: lines 25-29.
Aborted(t, st, err) ==
    [ok |-> FALSE, this |-> t, stages |-> st, err |-> err, request |-> NoRequest]
Suspended(t, st, req) ==
    [ok |-> TRUE, this |-> t, stages |-> st, err |-> NoError, request |-> req]

\* Lines 25-29 run to the end whatever a stage throws, the last error thrown.
StagesLastError(t0, requestType, bucket, key, edits) ==
    LET t4 == [t0 EXCEPT !.requestType = requestType, !.bucket = bucket.val,
                         !.key = key.val, !.edits = edits.val]
        all == <<"parseRequestType", "parseImageBucket", "parseImageKey", "parseImageEdits">>
    IN  IF ~edits.ok THEN Aborted([t4 EXCEPT !.edits = t0.edits], all, edits.err)
        ELSE IF ~key.ok THEN Aborted(t4, all, key.err)
        ELSE IF ~bucket.ok THEN Aborted(t4, all, bucket.err)
        ELSE Suspended(t4, Append(all, "getOriginalImage"), GetObject(t4.bucket, t4.key))

\* Lines 25-29 given the outcome of each parse method on the event: the
\* assignments in order, stopping at the first outcome that is a throw.
Stages(t0, requestType, bucket, key, edits) ==
    LET t1 == [t0 EXCEPT !.requestType = requestType]
        t2 == [t1 EXCEPT !.bucket = bucket.val]
        t3 == [t2 EXCEPT !.key = key.val]
        t4 == [t3 EXCEPT !.edits = edits.val]
    IN  IF ~bucket.ok
        THEN Aborted(t1, <<"parseRequestType", "parseImageBucket">>, bucket.err)
        ELSE IF ~key.ok
        THEN Aborted(t2, <<"parseRequestType", "parseImageBucket", "parseImageKey">>,
                     key.err)
        ELSE IF ~edits.ok
        THEN Aborted(t3, <<"parseRequestType", "parseImageBucket", "parseImageKey",
                           "parseImageEdits">>, edits.err)
        ELSE Suspended(t4, <<"parseRequestType", "parseImageBucket", "parseImageKey",
                             "parseImageEdits", "getOriginalImage">>,
                       GetObject(t4.bucket, t4.key))

\* SetupToAwait running every stage and throwing the last error it met.
SetupToAwaitLastError(t0, ev) ==
    StagesLastError(t0, parseRequestType(ev),
                    parseImageBucket(ev, parseRequestType(ev)),
                    parseImageKey(ev, parseRequestType(ev)),
                    parseImageEdits(ev, parseRequestType(ev)))

SetupToAwait(t0, ev) ==
    Stages(t0, parseRequestType(ev),
           parseImageBucket(ev, parseRequestType(ev)),
           parseImageKey(ev, parseRequestType(ev)),
           parseImageEdits(ev, parseRequestType(ev)))

\* String(v) of a parsed value, as the template literal of line 48 takes it.
RECURSIVE NatToString(_)
NatToString(n) ==
    IF n < 10 THEN <<Digits[n + 1]>> ELSE NatToString(n \div 10) \o <<Digits[(n % 10) + 1]>>

RECURSIVE JSToString(_), JoinValues(_)
JSToString(v) ==
    CASE v.t = "string" -> v.v
      [] v.t = "number" -> IF v.v < 0 THEN <<"-">> \o NatToString(0 - v.v) ELSE NatToString(v.v)
      [] v.t = "boolean" -> IF v.v THEN <<"t", "r", "u", "e">> ELSE <<"f", "a", "l", "s", "e">>
      [] v.t = "array" -> JoinValues(v.v)
      [] v.t = "object" -> <<"[", "o", "b", "j", "e", "c", "t", " ", "O", "b", "j", "e", "c", "t", "]">>
      [] v.t = "null" -> <<"n", "u", "l", "l">>
      [] OTHER -> <<"u", "n", "d", "e", "f", "i", "n", "e", "d">>
JoinValues(vs) ==
    IF Len(vs) = 0 THEN <<>>
    ELSE LET first == IF vs[1].t \in {"null", "undefined"} THEN <<>> ELSE JSToString(vs[1])
         IN  IF Len(vs) = 1 THEN first ELSE first \o <<",">> \o JoinValues(Tail(vs))

acceptedValues ==
    <<<<"j", "p", "e", "g">>, <<"p", "n", "g">>, <<"w", "e", "b", "p">>,
      <<"t", "i", "f", "f">>, <<"h", "e", "i", "f">>>>

\* Object.keys(edits) of a parsed value, as far as its names can be codec
\* names: the keys of an object; an index of a string or an array is none.
ObjectKeys(v) == IF v.t = "object" THEN [i \in 1..Len(v.v) |-> v.v[i].k] ELSE <<>>

\* FixQuality writing the new key and leaving the old one in place.
FixQualityKeepsStaleKey(edits, outputFormat, requestType) ==
    IF /\ requestType \in {"Custom", "Thumbor"}
       /\ outputFormat.t = "string"
       /\ Includes(acceptedValues, outputFormat.v)
    THEN LET qualityKeys == SelectSeq(ObjectKeys(edits),
                                      LAMBDA k : Includes(acceptedValues, k))
         IN  IF Len(qualityKeys) > 0 /\ qualityKeys[1] # outputFormat.v
             THEN JObj(SetKey(edits.v, outputFormat.v, GetProp(edits, qualityKeys[1])))
             ELSE edits
    ELSE edits

\* Lines 49-56: the quality key renamed to the output format.
FixQuality(edits, outputFormat, requestType) ==
    IF /\ requestType \in {"Custom", "Thumbor"}
       /\ outputFormat.t = "string"
       /\ Includes(acceptedValues, outputFormat.v)
    THEN LET qualityKeys == SelectSeq(ObjectKeys(edits),
                                      LAMBDA k : Includes(acceptedValues, k))
         IN  IF Len(qualityKeys) > 0 /\ qualityKeys[1] # outputFormat.v
             THEN JObj(DeleteKey(SetKey(edits.v, outputFormat.v,
                                        GetProp(edits, qualityKeys[1])),
                                 qualityKeys[1]))
             ELSE edits
    ELSE edits

\* ChooseOutputFormat with the negotiated format ahead of edits.toFormat.
ChooseOutputFormatNegotiatedFirst(t, negotiated) ==
    LET toFormat == GetProp(t.edits, <<"t", "o", "F", "o", "r", "m", "a", "t">>)
    IN  IF Truthy(negotiated) THEN negotiated
        ELSE IF Truthy(t.edits) /\ Truthy(toFormat) THEN toFormat
        ELSE t.outputFormat

\* ChooseOutputFormat clearing the field when neither source is truthy.
ChooseOutputFormatOrUndefined(t, negotiated) ==
    LET toFormat == GetProp(t.edits, <<"t", "o", "F", "o", "r", "m", "a", "t">>)
    IN  IF Truthy(t.edits) /\ Truthy(toFormat) THEN toFormat
        ELSE IF Truthy(negotiated) THEN negotiated
        ELSE JUndefined

\* Lines 36-41: the output format setup stores, given what getOutputFormat
\* returned; the field keeps its value when neither is truthy.
ChooseOutputFormat(t, negotiated) ==
    LET toFormat == GetProp(t.edits, <<"t", "o", "F", "o", "r", "m", "a", "t">>)
    IN  IF Truthy(t.edits) /\ Truthy(toFormat) THEN toFormat
        ELSE IF Truthy(negotiated) THEN negotiated
        ELSE t.outputFormat

\* Lines 44-57: with an output format, the content type is set from it and
\* the quality key is fixed.
FixQualityStep(t) ==
    IF Truthy(t.outputFormat)
    THEN [t EXCEPT
             !.ContentType = <<"i", "m", "a", "g", "e", "/">> \o JSToString(t.outputFormat),
             !.edits = FixQuality(t.edits, t.outputFormat, t.requestType)]
    ELSE t

\* setup resumed with the body getOriginalImage resolved to: lines 29-59.
SetupResume(t0, ev, body) ==
    LET t1 == [t0 EXCEPT !.originalImage = body]
        negotiated == getOutputFormat(ev, t1.edits, t1.requestType)
        t2 == [t1 EXCEPT !.outputFormat = ChooseOutputFormat(t1, negotiated.val)]
        t3 == FixQualityStep(t2)
    IN  IF ~negotiated.ok
        THEN [ok |-> FALSE, this |-> t1, err |-> negotiated.err]
        ELSE [ok |-> TRUE, this |-> t3, err |-> NoError]

\* The part of setup after the await of s3.getObject, with the S3 object
\* obj: getOriginalImage stores the metadata and setup resumes.
SetupFromAwait(t0, ev, obj) == SetupResume(StoreMetadata(t0, obj), ev, obj.Body)

(***************************************************************************)
(* Lines 44-57 of setup alone, on an instance whose edits, outputFormat    *)
(* and requestType are any values of the kinds the step distinguishes.     *)
(***************************************************************************)
\* Edits keys: three codec names and a key that is none, each with a value
\* of its own.
EditsKeyNames ==
    {<<"j", "p", "e", "g">>, <<"p", "n", "g">>, <<"w", "e", "b", "p">>, <<"f", "l", "i", "p">>}

QualityOf(k) ==
    IF k = <<"j", "p", "e", "g">> THEN JNum(80)
    ELSE IF k = <<"p", "n", "g">> THEN JNum(9)
    ELSE IF k = <<"w", "e", "b", "p">> THEN JNum(70)
    ELSE JBool(TRUE)

\* Objects with up to MaxEditsKeys distinct keys, in every insertion order.
EditsObjects ==
    {JObj([i \in 1..Len(ks) |-> [k |-> ks[i], v |-> QualityOf(ks[i])]]) :
        ks \in {q \in Strings(EditsKeyNames, MaxEditsKeys) :
                   \A i, j \in 1..Len(q) : i # j => q[i] # q[j]}}

OutputFormats ==
    {JUndefined, JStr(webp), JStr(<<"j", "p", "e", "g">>), JStr(<<"g", "i", "f">>)}

RequestTypes == {"Default", "Custom", "Thumbor"}

InitQuality ==
    /\ SOURCE_BUCKETS = Undefined
    /\ PATH_PREFIX = Undefined
    /\ AUTO_WEBP = Undefined
    /\ event = PathEvent(<<>>)
    /\ \E e \in EditsObjects, f \in OutputFormats, rt \in RequestTypes :
           this = [FreshInstance EXCEPT !.edits = e, !.outputFormat = f,
                                        !.requestType = rt]
    /\ pc = "idle"
    /\ rejection = NoError
    /\ s3Request = NoRequest
    /\ stages = <<>>
    /\ ret = NoCall
    /\ calls = NoCalls

CallFixQualityStep ==
    /\ pc = "idle"
    /\ this' = FixQualityStep(this)
    /\ ret' = Called("FixQualityStep", Return(<<>>))
    /\ pc' = "returned"
    /\ UNCHANGED <<env, event, rejection, s3Request, stages, calls>>

NextQuality == CallFixQualityStep

SpecQuality == InitQuality /\ [][NextQuality]_vars

(***************************************************************************)
(* The requests, environments and S3 answers explored.                     *)
(***************************************************************************)
SourceBucketValues ==
    {Undefined, <<>>, <<"a", ",", " ", "b">>, <<"a", "*">>, <<"*">>}
PathPrefixValues == {Undefined, <<>>, <<"/">>, <<"*">>}
AutoWebpValues == {Undefined, <<>>, <<"Y", "e", "s">>}

Paths ==
    {<<>>,
     <<"/", "a">>,
     <<"/", "k">>,
     <<"/", "a", "/", "k">>,
     <<"/", "b", "/", "k", "#", "a">>,
     <<"/", "c", "/", "k">>,
     <<"/", "a", "a", "/", "k", "/", "k", "?", "a", "#", "b">>}

\* Values of the edits query parameter.
EditsParameters ==
    {
      \* base64 of  {}
      <<"e", "3", "0", "=">>,
      \* base64 of  {toFormat:webp}
      <<"e", "y", "J", "0", "b", "0", "Z", "v", "c", "m", "1", "h", "d", "C", "I", "6", "I", "n", "d", "l", "Y", "n", "A", "i", "f", "Q", "=", "=">>,
      \* base64 of  {outputFormat:png}
      <<"e", "y", "J", "v", "d", "X", "R", "w", "d", "X", "R", "G", "b", "3", "J", "t", "Y", "X", "Q", "i", "O", "i", "J", "w", "b", "m", "c", "i", "f", "Q", "=", "=">>,
      \* base64 of  {jpeg:80,toFormat:webp}
      <<"e", "y", "J", "q", "c", "G", "V", "n", "I", "j", "o", "4", "M", "C", "w", "i", "d", "G", "9", "G", "b", "3", "J", "t", "Y", "X", "Q", "i", "O", "i", "J", "3", "Z", "W", "J", "w", "I", "n", "0", "=">>,
      \* base64 of  {toFormat:,outputFormat:png}
      <<"e", "y", "J", "0", "b", "0", "Z", "v", "c", "m", "1", "h", "d", "C", "I", "6", "I", "i", "I", "s", "I", "m", "9", "1", "d", "H", "B", "1", "d", "E", "Z", "v", "c", "m", "1", "h", "d", "C", "I", "6", "I", "n", "B", "u", "Z", "y", "J", "9">>,
      \* base64 of  {toFormat:png,outputFormat:jpeg}
      <<"e", "y", "J", "0", "b", "0", "Z", "v", "c", "m", "1", "h", "d", "C", "I", "6", "I", "n", "B", "u", "Z", "y", "I", "s", "I", "m", "9", "1", "d", "H", "B", "1", "d", "E", "Z", "v", "c", "m", "1", "h", "d", "C", "I", "6", "I", "m", "p", "w", "Z", "W", "c", "i", "f", "Q", "=", "=">>,
      \* base64 of  5
      <<"N", "Q", "=", "=">>,
      \* base64 of  false
      <<"Z", "m", "F", "s", "c", "2", "U", "=">>,
      \* base64 of  null
      <<"b", "n", "V", "s", "b", "A", "=", "=">>,
      \* base64 of  {
      <<"e", "w", "=", "=">>,
      \* the empty string
      <<>>,
      \* base64 of  {}  after a character that is not of the alphabet
      <<"!", "e", "3", "0", "=">>
    }

Queries == {NoQuery, Query(Undefined)} \cup {Query(e) : e \in EditsParameters}

AcceptValues ==
    {Undefined,
     <<"i", "m", "a", "g", "e", "/", "p", "n", "g">>,
     <<"*", "/", "*", ",", "i", "m", "a", "g", "e", "/", "w", "e", "b", "p">>}

Events ==
    {Event(p, q, h) : p \in Paths, q \in Queries,
                      h \in {NoHeaders} \cup {Headers(a) : a \in AcceptValues}}

S3Objects ==
    {[Body |-> "bytes", ContentType |-> Undefined, CacheControl |-> Undefined,
      Expires |-> NoDate, LastModified |-> NoDate],
     [Body |-> "bytes",
      ContentType |-> <<"i", "m", "a", "g", "e", "/", "p", "n", "g">>,
      CacheControl |-> <<"n", "o", "-", "c", "a", "c", "h", "e">>,
      Expires |-> DateOf(6, 1, 1, 2027, 0, 0, 0),
      LastModified |-> DateOf(3, 9, 4, 2019, 13, 5, 59)]}

S3Errors ==
    {[code |-> "NoSuchKey", message |-> "The specified key does not exist."],
     [code |-> "AccessDenied", message |-> "Access Denied"],
     [code |-> "NoSuchBucket", message |-> "The specified bucket does not exist."]}

(***************************************************************************)
(* One call of setup on a new instance.                                    *)
(***************************************************************************)
Init ==
    /\ SOURCE_BUCKETS \in SourceBucketValues
    /\ PATH_PREFIX \in PathPrefixValues
    /\ AUTO_WEBP \in AutoWebpValues
    /\ event = PathEvent(<<>>)
    /\ this = FreshInstance
    /\ pc = "idle"
    /\ rejection = NoError
    /\ s3Request = NoRequest
    /\ stages = <<>>
    /\ ret = NoCall
    /\ calls = NoCalls

\* setup(event) is called and runs until it throws or awaits s3.getObject.
Setup(ev) ==
    /\ pc = "idle"
    /\ \E r \in {SetupToAwait(this, ev)} :
           /\ event' = ev
           /\ this' = r.this
           /\ stages' = r.stages
           /\ s3Request' = r.request
           /\ rejection' = r.err
           /\ pc' = IF r.ok THEN "awaiting" ELSE "rejected"
    /\ UNCHANGED <<env, ret, calls>>

\* s3.getObject answers with an object: getOriginalImage and setup finish.
S3Resolves(obj) ==
    /\ pc = "awaiting"
    /\ \E r \in {SetupFromAwait(this, event, obj)} :
           /\ this' = r.this
           /\ rejection' = r.err
           /\ pc' = IF r.ok THEN "resolved" ELSE "rejected"
    /\ stages' = Append(stages, "getOutputFormat")
    /\ UNCHANGED <<env, event, s3Request, ret, calls>>

\* s3.getObject fails: getOriginalImage rejects and setup passes it on.
S3Rejects(err) ==
    /\ pc = "awaiting"
    /\ rejection' = StorageError(err)
    /\ pc' = "rejected"
    /\ UNCHANGED <<env, event, this, s3Request, stages, ret, calls>>

Next ==
    \/ \E ev \in Events : Setup(ev)
    \/ \E obj \in S3Objects : S3Resolves(obj)
    \/ \E err \in S3Errors : S3Rejects(err)

Spec == Init /\ [][Next]_vars

(***************************************************************************)
(* Claims about parseImageBucket (SpecBucket) and parseImageKey (SpecKey). *)
(***************************************************************************)
\* The whitelist of the current environment (only used where it is set).
Whitelist == getAllowedSourceBuckets.val

\* The path as removePathPrefix leaves it (only used where that succeeds).
PrefixRemovable == RegexValid(ToStr(PATH_PREFIX))
StrippedPath == StripPattern(event.path, ToStr(PATH_PREFIX))

\* The first index of s holding a character of cs, or Len(s) + 1.
FirstIndexOf(s, cs) ==
    IF \E i \in 1..Len(s) : s[i] \in cs
    THEN CHOOSE i \in 1..Len(s) : s[i] \in cs /\ \A j \in 1..(i - 1) : s[j] \notin cs
    ELSE Len(s) + 1

\* s up to, not including, its first character of cs.
Before(s, cs) == SubSeq(s, 1, FirstIndexOf(s, cs) - 1)
\* s after its first character of cs.
After(s, cs) == SubSeq(s, FirstIndexOf(s, cs) + 1, Len(s))

BucketCalled == pc = "returned" /\ ret.fn = "parseImageBucket"
KeyCalled == pc = "returned" /\ ret.fn = "parseImageKey"

\* C1 as stated, for a whitelist without empty entries: whenever the path is
\* "/b/key" for an entry b of the whitelist, parseImageBucket returns b.
C1_PathSlashBucketSlashKey ==
    (/\ BucketCalled /\ SOURCE_BUCKETS # Undefined /\ PrefixRemovable
     /\ \A j \in 1..Len(Whitelist) : Whitelist[j] # <<>>) =>
        \A i \in 1..Len(Whitelist) :
            LET b == Whitelist[i]
            IN  (/\ b # <<>>
                 /\ Len(event.path) > Len(b) + 2
                 /\ SubSeq(event.path, 1, Len(b) + 2) = <<"/">> \o b \o <<"/">>)
                => (ret.ok /\ ret.val = b)

\* C1 amended: whenever the path that removePathPrefix leaves is "b/key" for
\* a non-empty entry b of the whitelist (as for the path "/b/key" under
\* PATH_PREFIX "/"), parseImageBucket returns b and throws nothing.
C1_StrippedPathNamesEntry ==
    (BucketCalled /\ SOURCE_BUCKETS # Undefined /\ PrefixRemovable) =>
        \A i \in 1..Len(Whitelist) :
            LET b == Whitelist[i]
            IN  (/\ b # <<>>
                 /\ Len(StrippedPath) > Len(b)
                 /\ SubSeq(StrippedPath, 1, Len(b) + 1) = b \o <<"/">>)
                => (ret.ok /\ ret.val = b /\ ret.err = NoError)

\* An entry that is not the first one is returned for "/b/a" under prefix "/".
C1_Witness ==
    /\ BucketCalled
    /\ PATH_PREFIX = <<"/">>
    /\ SOURCE_BUCKETS = <<"a", ",", "b">>
    /\ event.path = <<"/", "b", "/", "a">>
    /\ ret.ok /\ ret.val = <<"b">>

\* C2 as stated: a non-empty bucket segment that is no entry of the whitelist
\* and does not match the first entry as an anchored pattern is refused with
\* AccessDenied (403, ImageBucket::CannotAccessBucket).
C2_UnlistedBucketDenied ==
    (BucketCalled /\ SOURCE_BUCKETS # Undefined /\ PrefixRemovable) =>
        LET b == Before(StrippedPath, {"/"})
        IN  (/\ b # <<>>
             /\ ~Includes(Whitelist, b)
             /\ ~(RegexValid(Whitelist[1]) /\ MatchesAnchored(b, Whitelist[1])))
            => (~ret.ok /\ ret.err = CannotAccessBucket)

\* The key the path of the claim's shape "/bucket/key..." announces: what
\* stands between the second '/' and the first '#' or '?'.
AnnouncedKey(path) == After(Tail(Before(path, {"#", "?"})), {"/"})

\* C4 as stated: for a path "/bucket/rest" followed by an optional query or
\* fragment the key is rest, e.g. "a/b/c.png" for "/bucket/a/b/c.png?x=1#frag".
C4_KeyOfSlashBucketPath ==
    KeyCalled =>
        LET clean == Before(event.path, {"#", "?"})
        IN  (/\ Len(clean) >= 4
             /\ clean[1] = "/"
             /\ clean[2] # "/"
             /\ AnnouncedKey(event.path) # <<>>)
            => (ret.ok /\ ret.val = AnnouncedKey(event.path))

\* C4 amended: the key is what follows the first '/' of the path that
\* removePathPrefix leaves, cut before the first '#' or '?'; it holds no '#'
\* and no '?'; and an empty remainder throws ImageEdits::CannotFindImage.
C4_KeyOfStrippedPath ==
    (KeyCalled /\ PrefixRemovable) =>
        LET expected == After(Before(StrippedPath, {"#", "?"}), {"/"})
        IN  /\ expected # <<>> =>
                /\ ret.ok /\ ret.val = expected
                /\ \A i \in 1..Len(ret.val) : ret.val[i] \notin {"#", "?"}
            /\ expected = <<>> => (~ret.ok /\ ret.err = CannotFindImage)

\* Under PATH_PREFIX "/" the path "/a/a?" has the key "a": the bucket segment
\* and the query mark are gone.
C4_Witness ==
    /\ KeyCalled
    /\ PATH_PREFIX = <<"/">>
    /\ event.path = <<"/", "a", "/", "a", "?">>
    /\ ret.ok /\ ret.val = <<"a">>


(***************************************************************************)
(* Claims about setup (Spec).                                              *)
(***************************************************************************)
Default == "Default"
BucketStage == parseImageBucket(event, Default)
KeyStage == parseImageKey(event, Default)
EditsStage == parseImageEdits(event, Default)

SetupCalled == pc \in {"awaiting", "resolved", "rejected"}

StagesToBucket == <<"parseRequestType", "parseImageBucket">>
StagesToKey == Append(StagesToBucket, "parseImageKey")
StagesToEdits == Append(StagesToKey, "parseImageEdits")
StagesToFetch == Append(StagesToEdits, "getOriginalImage")
StagesToFormat == Append(StagesToFetch, "getOutputFormat")

OnlySlashBucket(path) ==
    Len(path) >= 2 /\ path[1] = "/" /\ \A i \in 2..Len(path) : path[i] \notin {"/", "#", "?"}

\* C5 as stated, under a whitelist whose first entry is a bucket name: for a
\* path "/bucket" setup rejects, with ImageNotFound when the bucket stage
\* passes, and calls no s3.getObject; and no s3.getObject is called with an
\* empty key.
C5_SlashBucketHasNoKey ==
    /\ (/\ SetupCalled
        /\ OnlySlashBucket(event.path)
        /\ SOURCE_BUCKETS # Undefined
        /\ Whitelist[1] \in {<<"a">>, <<"b">>}) =>
           /\ pc = "rejected"
           /\ ~s3Request.issued
           /\ BucketStage.ok => rejection = CannotFindImage
    /\ s3Request.issued => s3Request.Key # <<>>

\* C5 amended: when the path that removePathPrefix leaves holds no "/" (only
\* a bucket segment, as "/bucket" under PATH_PREFIX "/"), parseImageKey
\* throws ImageNotFound, setup rejects (with that error when the bucket
\* stage passes) and calls no s3.getObject; and no s3.getObject is called
\* with an empty key.
C5_BucketOnlyPathHasNoKey ==
    /\ (SetupCalled /\ PrefixRemovable /\ \A i \in 1..Len(StrippedPath) : StrippedPath[i] # "/") =>
           /\ ~KeyStage.ok /\ KeyStage.err = CannotFindImage
           /\ pc = "rejected"
           /\ ~s3Request.issued
           /\ BucketStage.ok => (rejection = CannotFindImage /\ stages = StagesToKey)
    /\ s3Request.issued => s3Request.Key # <<>>

\* "/a" under PATH_PREFIX "/" and a whitelist with the entry a.
C5_Witness ==
    /\ pc = "rejected"
    /\ event.path = <<"/", "a">>
    /\ PATH_PREFIX = <<"/">>
    /\ BucketStage.ok
    /\ rejection = CannotFindImage
    /\ ~s3Request.issued

\* C6: setup stops at the first stage that throws: it rejects with the error
\* of the earliest failing stage, no later stage is called (no s3.getObject
\* after a bucket, key or edits failure, no format stage after a failed
\* fetch), and it resolves only when no stage failed.
C6_FailFast ==
    SetupCalled =>
        /\ ~BucketStage.ok =>
               /\ pc = "rejected" /\ rejection = BucketStage.err
               /\ stages = StagesToBucket /\ ~s3Request.issued
        /\ (BucketStage.ok /\ ~KeyStage.ok) =>
               /\ pc = "rejected" /\ rejection = KeyStage.err
               /\ stages = StagesToKey /\ ~s3Request.issued
        /\ (BucketStage.ok /\ KeyStage.ok /\ ~EditsStage.ok) =>
               /\ pc = "rejected" /\ rejection = EditsStage.err
               /\ stages = StagesToEdits /\ ~s3Request.issued
        /\ (pc = "rejected" /\ stages = StagesToFetch) =>
               /\ \E err \in S3Errors : rejection = StorageError(err)
               /\ this.originalImage = "undefined"
               /\ this.outputFormat.t = "undefined"
               /\ this.ContentType = Undefined
        /\ (pc = "rejected" /\ stages = StagesToFormat) =>
               /\ rejection = getOutputFormat(event, this.edits, Default).err
               /\ this.outputFormat.t = "undefined"
        /\ pc = "rejected" => rejection # NoError
        /\ pc = "resolved" =>
               /\ BucketStage.ok /\ KeyStage.ok /\ EditsStage.ok
               /\ getOutputFormat(event, this.edits, Default).ok
               /\ stages = StagesToFormat /\ rejection = NoError

\* Bucket, key and edits would each fail; the bucket error is the rejection.
C6_Witness ==
    /\ pc = "rejected"
    /\ ~BucketStage.ok /\ ~KeyStage.ok /\ ~EditsStage.ok
    /\ BucketStage.err # KeyStage.err /\ KeyStage.err # EditsStage.err
    /\ rejection = BucketStage.err
    /\ stages = StagesToBucket

\* C7 as stated: once parseImageEdits has returned, edits is a mapping.
C7_EditsIsMapping ==
    (SetupCalled /\ Len(stages) >= Len(StagesToFetch)) => this.edits.t = "object"

\* Base64 as RFC 4648 has it: groups of four characters of the alphabet, the
\* last one padded with at most two "=".
WellFormedBase64(raw) ==
    /\ Len(raw) % 4 = 0
    /\ \E pad \in 0..2 :
           /\ pad <= Len(raw)
           /\ \A i \in 1..(Len(raw) - pad) : IsBase64Char(raw[i])
           /\ \A i \in (Len(raw) - pad + 1)..Len(raw) : raw[i] = "="

\* C8 as stated, for the requests whose bucket and key stages pass: an edits
\* parameter that is not well-formed base64 of well-formed JSON makes the
\* edits stage throw EditsParseError (400, DecodeRequest::CannotDecodeRequest)
\* and setup rejects with it, calling no s3.getObject.
C8_MalformedEditsRejected ==
    (/\ SetupCalled
     /\ BucketStage.ok /\ KeyStage.ok
     /\ event.queryStringParameters.present
     /\ event.queryStringParameters.edits # Undefined
     /\ ~(/\ WellFormedBase64(event.queryStringParameters.edits)
          /\ JSONParse(BufferToString(Base64Decode(event.queryStringParameters.edits))).ok))
    => /\ ~EditsStage.ok /\ EditsStage.err = CannotDecodeRequest
       /\ ~s3Request.issued
       /\ pc = "rejected" /\ rejection = CannotDecodeRequest

toFormatKey == <<"t", "o", "F", "o", "r", "m", "a", "t">>
outputFormatKey == <<"o", "u", "t", "p", "u", "t", "F", "o", "r", "m", "a", "t">>

AcceptsWebp ==
    /\ event.headers.present
    /\ event.headers.Accept # Undefined
    /\ StrIncludes(event.headers.Accept, ImageWebp)

\* C9: after a successful setup the output format is edits.toFormat when
\* that is set (truthy); otherwise webp when AUTO_WEBP is set to a non-empty
\* string and headers.Accept contains image/webp; otherwise
\* edits.outputFormat when that is set; otherwise it stays unset.
C9_OutputFormatPrecedence ==
    pc = "resolved" =>
        LET edits == EditsStage.val
        IN  SameValue(this.outputFormat,
                IF Truthy(GetProp(edits, toFormatKey)) THEN GetProp(edits, toFormatKey)
                ELSE IF TruthyString(AUTO_WEBP) /\ AcceptsWebp THEN JStr(webp)
                ELSE IF Truthy(GetProp(edits, outputFormatKey))
                     THEN GetProp(edits, outputFormatKey)
                ELSE JUndefined)

\* Negotiation wins over an outputFormat edit naming png.
C9_Witness ==
    /\ pc = "resolved"
    /\ SameValue(GetProp(EditsStage.val, outputFormatKey), JStr(<<"p", "n", "g">>))
    /\ ~Truthy(GetProp(EditsStage.val, toFormatKey))
    /\ TruthyString(AUTO_WEBP) /\ AcceptsWebp
    /\ SameValue(this.outputFormat, JStr(webp))

FetchFailed == pc = "rejected" /\ stages = StagesToFetch

\* C11: when s3.getObject fails, setup rejects with a structured error whose
\* code and message are those of an error of the storage, whose status is 404
\* when that code is NoSuchKey and 500 otherwise; and the failed fetch sets no
\* ContentType, CacheControl, Expires or LastModified (nor originalImage).
C11_StorageErrorMapped ==
    FetchFailed =>
        /\ rejection.kind = "structured"
        /\ \E err \in S3Errors :
               /\ rejection.code = err.code
               /\ rejection.message = err.message
        /\ rejection.status = IF rejection.code = "NoSuchKey" THEN 404 ELSE 500
        /\ this.ContentType = Undefined
        /\ this.CacheControl = Undefined
        /\ this.Expires = Undefined
        /\ this.LastModified = Undefined
        /\ this.originalImage = "undefined"

\* A fetch that failed for another reason than a missing key: status 500 with
\* the code and message of the storage.
C11_Witness ==
    /\ FetchFailed
    /\ s3Request.issued
    /\ rejection = Error(500, "NoSuchBucket", "The specified bucket does not exist.")

\* C12 as stated, for the environments whose PATH_PREFIX and first whitelist
\* entry are valid regular expressions: every error setup rejects with is a
\* structured { status, code, message } with status 400, 403, 404 or 500,
\* never an exception of the runtime.
C12_RejectionsAreStructured ==
    (/\ pc = "rejected"
     /\ PrefixRemovable
     /\ SOURCE_BUCKETS # Undefined => RegexValid(Whitelist[1]))
    => /\ rejection.kind = "structured"
       /\ rejection.status \in {400, 403, 404, 500}

(***************************************************************************)
(* Claims about the quality fix of setup (SpecQuality).                    *)
(***************************************************************************)
\* The codec names among the keys of an object, in insertion order.
CodecKeys(edits) == SelectSeq(ObjectKeys(edits), LAMBDA k : Includes(acceptedValues, k))

QualityStepDone == pc = "returned" /\ ret.fn = "FixQualityStep"

\* The step renames: the request type is Custom or Thumbor, the output format
\* is a codec name, and the first codec key of the edits is another name.
Renames(t) ==
    /\ t.requestType \in {"Custom", "Thumbor"}
    /\ t.outputFormat.t = "string"
    /\ Includes(acceptedValues, t.outputFormat.v)
    /\ Len(CodecKeys(t.edits)) > 0
    /\ CodecKeys(t.edits)[1] # t.outputFormat.v

ReuseEvents ==
    {Event(p, q, h) :
        p \in {<<"/", "a", "/", "k">>, <<"/", "b", "/", "k", "#", "a">>, <<"/", "c", "/", "k">>},
        q \in {NoQuery,
               \* base64 of  {toFormat:webp}
               Query(<<"e", "y", "J", "0", "b", "0", "Z", "v", "c", "m", "1", "h", "d", "C", "I", "6", "I", "n", "d", "l", "Y", "n", "A", "i", "f", "Q", "=", "=">>),
               \* base64 of  {outputFormat:png}
               Query(<<"e", "y", "J", "v", "d", "X", "R", "w", "d", "X", "R", "G", "b", "3", "J", "t", "Y", "X", "Q", "i", "O", "i", "J", "w", "b", "m", "c", "i", "f", "Q", "=", "=">>),
               \* base64 of  {
               Query(<<"e", "w", "=", "=">>)},
        h \in {Headers(Undefined), Headers(ImageWebp)}}

InitReuse ==
    /\ SOURCE_BUCKETS = <<"a", ",", " ", "b">>
    /\ PATH_PREFIX = <<"/">>
    /\ AUTO_WEBP \in {Undefined, <<"Y", "e", "s">>}
    /\ event = PathEvent(<<>>)
    /\ this = FreshInstance
    /\ pc = "idle"
    /\ rejection = NoError
    /\ s3Request = NoRequest
    /\ stages = <<>>
    /\ ret = NoCall
    /\ calls = NoCalls

\* setup(ev) is called on the instance: lines 25-29 up to the await.  Call B
\* is made after call A.
SetupStarts(c, ev) ==
    /\ calls[c].pc = "idle"
    /\ c = "B" => calls["A"].pc # "idle"
    /\ \E r \in {SetupToAwait(this, ev)} :
           /\ this' = r.this
           /\ calls' = [calls EXCEPT ![c] =
                           [pc |-> IF r.ok THEN "awaiting" ELSE "rejected",
                            event |-> ev, rejection |-> r.err,
                            request |-> r.request, object |-> NoObject]]
    /\ stages' = Append(stages, c)
    /\ UNCHANGED <<env, event, pc, rejection, s3Request, ret>>

\* s3.getObject of call c answers with obj: getOriginalImage stores the
\* metadata on the instance and resolves to the body.
GetObjectResolves(c, obj) ==
    /\ calls[c].pc = "awaiting"
    /\ this' = StoreMetadata(this, obj)
    /\ calls' = [calls EXCEPT ![c].pc = "fetched", ![c].object = obj]
    /\ stages' = Append(stages, c)
    /\ UNCHANGED <<env, event, pc, rejection, s3Request, ret>>

\* s3.getObject of call c fails: the call is rejected, the instance untouched.
GetObjectRejects(c, err) ==
    /\ calls[c].pc = "awaiting"
    /\ calls' = [calls EXCEPT ![c].pc = "rejected", ![c].rejection = StorageError(err)]
    /\ stages' = Append(stages, c)
    /\ UNCHANGED <<env, event, this, pc, rejection, s3Request, ret>>

\* setup of call c resumes after the await, on the instance as it is now.
SetupResumes(c) ==
    /\ calls[c].pc = "fetched"
    /\ \E r \in {SetupResume(this, calls[c].event, calls[c].object.Body)} :
           /\ this' = r.this
           /\ calls' = [calls EXCEPT ![c].pc = IF r.ok THEN "resolved" ELSE "rejected",
                                     ![c].rejection = r.err]
    /\ stages' = Append(stages, c)
    /\ UNCHANGED <<env, event, pc, rejection, s3Request, ret>>

NextReuse ==
    \/ \E c \in CallIds, ev \in ReuseEvents : SetupStarts(c, ev)
    \/ \E c \in CallIds, obj \in S3Objects : GetObjectResolves(c, obj)
    \/ \E c \in CallIds, err \in S3Errors : GetObjectRejects(c, err)
    \/ \E c \in CallIds : SetupResumes(c)

SpecReuse == InitReuse /\ [][NextReuse]_vars

\* The instance after setup(ev) alone on a new ImageRequest, S3 answering obj.
AloneDescriptor(ev, obj) ==
    SetupFromAwait(SetupToAwait(FreshInstance, ev).this, ev, obj).this

\* B's setup has just resolved, and A had ended before B was called.
BResolvedAfterA ==
    /\ calls["A"].pc \in {"resolved", "rejected"}
    /\ calls["B"].pc = "resolved"
    /\ stages # <<>>
    /\ stages[Len(stages)] = "B"
    /\ \A i, j \in 1..Len(stages) : (stages[i] = "B" /\ i < j) => stages[j] = "B"

\* C14 as stated, in the sequential case alone: when B's setup resolves on
\* an instance whose call A had ended before B was made, outputFormat,
\* ContentType, Expires, LastModified, CacheControl, edits, bucket and key
\* are those of B alone on a new instance.
C14_NoStateCarriesOver ==
    BResolvedAfterA =>
        \E alone \in {AloneDescriptor(calls["B"].event, calls["B"].object)} :
            /\ SameValue(this.outputFormat, alone.outputFormat)
            /\ this.ContentType = alone.ContentType
            /\ this.Expires = alone.Expires
            /\ this.LastModified = alone.LastModified
            /\ this.CacheControl = alone.CacheControl
            /\ SameValue(this.edits, alone.edits)
            /\ this.bucket = alone.bucket
            /\ this.key = alone.key

\* C14, as the code has it.  When B's setup resolves, bucket, key and edits
\* are those of B alone on a new instance, and outputFormat is B alone's
\* whenever B alone sets one; otherwise outputFormat keeps the value the
\* instance held, and ContentType is image/<that value> when it is truthy
\* and else what the last answer of S3 stored.  The resumed setup leaves
\* Expires, LastModified and CacheControl as the last answer of S3 left
\* them.  When S3 answers B, CacheControl becomes B alone's, Expires and
\* LastModified become B alone's if the object carries them and keep the
\* values the instance held if it does not, and ContentType becomes B
\* alone's whenever B alone has no output format.
C14_UnsetFieldsKeepOldValues ==
    [][/\ (SetupResumes("B") /\ calls'["B"].pc = "resolved") =>
              \E alone \in {AloneDescriptor(calls["B"].event, calls["B"].object)} :
                  /\ this'.bucket = alone.bucket
                  /\ this'.key = alone.key
                  /\ SameValue(this'.edits, alone.edits)
                  /\ this'.originalImage = alone.originalImage
                  /\ SameValue(this'.outputFormat,
                               IF Truthy(alone.outputFormat)
                               THEN alone.outputFormat ELSE this.outputFormat)
                  /\ this'.ContentType =
                         IF Truthy(this'.outputFormat)
                         THEN <<"i", "m", "a", "g", "e", "/">> \o JSToString(this'.outputFormat)
                         ELSE this.ContentType
                  /\ this'.Expires = this.Expires
                  /\ this'.LastModified = this.LastModified
                  /\ this'.CacheControl = this.CacheControl
       /\ \A obj \in S3Objects :
              GetObjectResolves("B", obj) =>
                  \E alone \in {AloneDescriptor(calls["B"].event, obj)} :
                      /\ this'.CacheControl = alone.CacheControl
                      /\ this'.Expires =
                             IF obj.Expires.set THEN alone.Expires ELSE this.Expires
                      /\ this'.LastModified =
                             IF obj.LastModified.set
                             THEN alone.LastModified ELSE this.LastModified
                      /\ ~Truthy(alone.outputFormat) =>
                             this'.ContentType = alone.ContentType
      ]_vars

\* B's setup resolved on the instance after A's: A asked for toFormat webp
\* and its object carried an expiry date; B asks for no edits and no webp,
\* its object carries no dates; the instance holds B's bucket and key with
\* A's output format, the content type made of it, and A's expiry date.
C14_Witness ==
    /\ BResolvedAfterA
    /\ calls["A"].pc = "resolved"
    /\ AUTO_WEBP = Undefined
    /\ SameValue(AloneDescriptor(calls["A"].event, calls["A"].object).outputFormat,
                 JStr(webp))
    /\ calls["A"].object.Expires.set
    /\ calls["B"].event = Event(<<"/", "b", "/", "k", "#", "a">>, NoQuery, Headers(Undefined))
    /\ ~calls["B"].object.Expires.set
    /\ this.bucket = <<"b">>
    /\ this.originalImage = calls["B"].object.Body
    /\ SameValue(this.edits, AloneDescriptor(calls["B"].event, calls["B"].object).edits)
    /\ ~Truthy(AloneDescriptor(calls["B"].event, calls["B"].object).outputFormat)
    /\ SameValue(this.outputFormat, JStr(webp))
    /\ this.ContentType = ImageWebp
    /\ this.Expires = toUTCString(calls["A"].object.Expires)
====
